---- MODULE Spec2Model ----
(***************************************************************************)
(* Model of netket_qsr's quantum-state-reconstruction driver               *)
(* (src/netket_qsr/driver/qsr.py): the conversion of a measurement dataset *)
(* into segmented flat arrays, the composition of a sampled batch, the     *)
(* segment sum, and the QSR driver's step() / nll() state machine.         *)
(*                                                                         *)
(* Arrays are sequences; Python's 0-based position p is position p+1 here, *)
(* while offsets (secs), indices and lengths keep their Python values.     *)
(* A complex matrix element (re + i*im) / sqrt(2)^k is the triple          *)
(* <<re, im, k>>; a gradient value re + i*im is the pair <<re, im>>.        *)
(***************************************************************************)
EXTENDS Integers, Sequences, FiniteSets, TLC

VARIABLES
    training_data,  \* the (sigma_s, Us) pair handed to _convert_data
    bases_ret,      \* what _check_bases_type returned or raised
    conv_ret,       \* what _convert_data returned or raised
    compose_call,   \* the last _compose_sampled_data call: arguments and result
    sum_call,       \* the last sum_sections call: arguments and result
    drv,            \* the QSR driver objects: d |-> the fields of self
    last_call,      \* d |-> the method last called on driver d
    ret,            \* d |-> what that call returned or raised
    ctor,           \* d |-> the arguments driver d was constructed with
    hist            \* d |-> history of driver d: the index list each step()
                    \*       drew, the batch the latest step() composed and
                    \*       what the preconditioner returned in it

vars == <<training_data, bases_ret, conv_ret, compose_call, sum_call,
          drv, last_call, ret, ctor, hist>>

dataVars == <<training_data, bases_ret, conv_ret, compose_call, sum_call>>
driverVars == <<drv, last_call, ret, ctor, hist>>

(***************************************************************************)
(* Bounds of the model.                                                    *)
(***************************************************************************)
MaxRecords == 3     \* most samples, and most bases, in a training set
MaxBatch == 2       \* most sampled indices in one batch
MaxGran == 3        \* largest min_padding_factor tried besides the default
MaxArr == 3         \* longest flat array given to sum_sections
MaxSteps == 2       \* most step() calls on one driver

\* min_padding_factor's default value
DefaultPaddingFactor == 128

None == [err |-> "unset"]

(***************************************************************************)
(* Sequence helpers.                                                       *)
(***************************************************************************)
Max2(a, b) == IF a >= b THEN a ELSE b
Min2(a, b) == IF a <= b THEN a ELSE b

Zeros(n, z) == [p \in 1..n |-> z]

\* a slice bound k on an array of n rows: a negative bound counts from the
\* end, and every bound is clipped to 0..n
SliceBound(k, n) == IF k < 0 THEN Max2(k + n, 0) ELSE Min2(k, n)

\* Python's arr[a:b]
Slice(s, a, b) ==
    LET lo == SliceBound(a, Len(s))
        hi == SliceBound(b, Len(s))
    IN IF hi <= lo THEN <<>> ELSE [p \in 1..(hi - lo) |-> s[lo + p]]

\* ndarray.resize to a larger size: the new entries are zero
Resize(s, n, z) == [p \in 1..n |-> IF p <= Len(s) THEN s[p] ELSE z]

\* arr[a:] = v for 0 <= a and Len(v) rows from a to the end
SetSlice(s, a, v) ==
    [p \in 1..Len(s) |-> IF p > a /\ p <= a + Len(v) THEN v[p - a] ELSE s[p]]

\* whether arr[a:b] = v is a valid assignment: v has as many rows as the
\* target slice, or one row that is broadcast over it
SliceFits(s, a, b, v) == Len(v) = Len(Slice(s, a, b)) \/ Len(v) = 1

\* arr[a:b] = v when it is valid
AssignSlice(s, a, b, v) ==
    LET lo == SliceBound(a, Len(s))
        hi == SliceBound(b, Len(s))
    IN [p \in 1..Len(s) |->
          IF p > lo /\ p <= hi THEN (IF Len(v) = 1 THEN v[1] ELSE v[p - lo])
          ELSE s[p]]

\* arr[a:] = z
FillFrom(s, a, z) == [p \in 1..Len(s) |-> IF p > a THEN z ELSE s[p]]

RECURSIVE SumSeq(_)
SumSeq(s) == IF s = <<>> THEN 0 ELSE s[1] + SumSeq(Tail(s))

RECURSIVE SeqsUpTo(_, _)
\* every sequence over S of length at most n
SeqsUpTo(S, n) ==
    IF n = 0 THEN {<<>>}
    ELSE LET shorter == SeqsUpTo(S, n - 1)
         IN shorter \cup {Append(s, x) : s \in {t \in shorter : Len(t) = n - 1}, x \in S}

(***************************************************************************)
(* Basis rotations and their connected configurations.                     *)
(***************************************************************************)
ZeroMel == <<0, 0, 0>>
OneMel == <<1, 0, 0>>
CMul(x, y) == <<x[1] * y[1] - x[2] * y[2], x[1] * y[2] + x[2] * y[1], x[3] + y[3]>>

\* _build_rotation: the product of the local rotations, kept as its per-site
\* factors. A label that is none of X, Y, Z, I falls through the if/elif chain.
_build_rotation(size, basis) ==
    IF Len(basis) # size THEN [err |-> "AssertionError"]
    ELSE [err |-> "none",
          op |-> [j \in 1..size |->
                    IF basis[j] = "X" THEN "X"
                    ELSE IF basis[j] = "Y" THEN "Y"
                    ELSE "I"]]

\* The entries of U_X and U_Y: row r, column c in 0..1
UEntry(f, r, c) ==
    IF f = "X" THEN (IF r = 1 /\ c = 1 THEN <<-1, 0, 1>> ELSE <<1, 0, 1>>)
    ELSE IF c = 0 THEN <<1, 0, 1>>
    ELSE IF r = 0 THEN <<0, -1, 1>>
    ELSE <<0, 1, 1>>

\* Spin-1/2 local states -1, +1 have indices 0, 1
StateIdx(v) == IF v = 1 THEN 1 ELSE 0

RECURSIVE MelUpTo(_, _, _, _)
MelUpTo(U, sigma, sp, j) ==
    IF j = 0 THEN OneMel
    ELSE CMul(MelUpTo(U, sigma, sp, j - 1),
              IF U[j] = "I" THEN OneMel
              ELSE UEntry(U[j], StateIdx(sigma[j]), StateIdx(sp[j])))

RECURSIVE CfgIndex(_, _)
CfgIndex(cfg, j) ==
    IF j = 0 THEN 0 ELSE 2 * CfgIndex(cfg, j - 1) + StateIdx(cfg[j])

RECURSIVE SortBy(_, _)
\* the elements of S in ascending order of their configuration index
SortBy(S, n) ==
    IF S = {} THEN <<>>
    ELSE LET m == CHOOSE x \in S : \A y \in S : CfgIndex(x, n) <= CfgIndex(y, n)
         IN <<m>> \o SortBy(S \ {m}, n)

\* U.get_conn(sigma): the diagonal entry first, then the other configurations
\* that differ from sigma on rotated sites only, with their matrix elements
get_conn(U, sigma) ==
    LET n == Len(sigma)
        others == {sp \in [1..n -> {-1, 1}] :
                     /\ sp # sigma
                     /\ \A j \in 1..n : U[j] = "I" => sp[j] = sigma[j]}
        cfgs == <<sigma>> \o SortBy(others, n)
    IN [sigma_p |-> cfgs,
        mels |-> [p \in 1..Len(cfgs) |-> MelUpTo(U, sigma, cfgs[p], n)]]

(***************************************************************************)
(* _check_bases_type: Us is a Python container of bases. `container` is    *)
(* its type, `elem` the type of its elements, `items` the elements.        *)
(***************************************************************************)
RECURSIVE BuildAll(_, _, _)
\* the loop over Us: the first failing _build_rotation ends it
BuildAll(size, items, i) ==
    IF i > Len(items) THEN [err |-> "none", bases |-> <<>>]
    ELSE LET U == _build_rotation(size, items[i])
         IN IF U.err # "none" THEN [err |-> U.err]
            ELSE LET rest == BuildAll(size, items, i + 1)
                 IN IF rest.err # "none" THEN rest
                    ELSE [err |-> "none", bases |-> <<U.op>> \o rest.bases]

_check_bases_type(Us) ==
    IF Us.container \notin {"list", "ndarray"} THEN [err |-> "ValueError"]
    ELSE IF Us.items = <<>> THEN [err |-> "IndexError"]
    ELSE IF Us.elem = "op" THEN [err |-> "none", bases |-> Us.items]
    ELSE IF Us.elem = "str" THEN BuildAll(Len(Us.items[1]), Us.items, 1)
    ELSE [err |-> "TypeError"]

(***************************************************************************)
(* _convert_data. sigma_s is [N |-> sites, rows |-> the samples].          *)
(***************************************************************************)
RECURSIVE ConvertLoop(_, _, _, _)
\* the for loop over zip(sigma_s, Us), from pair i on
ConvertLoop(rows, bases, i, st) ==
    IF i > Min2(Len(rows), Len(bases)) THEN st
    ELSE LET conn == get_conn(bases[i], rows[i])
             Nc == Len(conn.mels)
             zero == Zeros(Len(rows[i]), 0)
         IN ConvertLoop(rows, bases, i + 1,
              [sigma_p |-> SetSlice(Resize(st.sigma_p, st.last_i + Nc, zero),
                                    st.last_i, conn.sigma_p),
               mels |-> SetSlice(Resize(st.mels, st.last_i + Nc, ZeroMel),
                                 st.last_i, conn.mels),
               secs |-> [st.secs EXCEPT ![i] = st.last_i],
               last_i |-> st.last_i + Nc,
               MAX_LEN |-> Max2(Nc, st.MAX_LEN),
               Nc |-> Nc])

\* the padding block and the last offset, lines 128-133
ConvertFinish(N, st) ==
    LET zero == Zeros(N, 0)
        total == st.last_i + st.MAX_LEN
    IN [err |-> "none",
        sigma_p |-> FillFrom(Resize(st.sigma_p, total, zero), st.last_i + st.Nc, zero),
        mels |-> FillFrom(Resize(st.mels, total, ZeroMel), st.last_i + st.Nc, ZeroMel),
        secs |-> [st.secs EXCEPT ![Len(st.secs)] = st.last_i],
        MAX_LEN |-> st.MAX_LEN]

_convert_data(sigma_s, Us) ==
    LET checked == _check_bases_type(Us)
    IN IF checked.err # "none" THEN [err |-> checked.err]
       ELSE ConvertFinish(sigma_s.N,
              ConvertLoop(sigma_s.rows, checked.bases, 1,
                [sigma_p |-> <<>>, mels |-> <<>>,
                 secs |-> Zeros(Len(sigma_s.rows) + 1, 0),
                 last_i |-> 0, MAX_LEN |-> 0,
                 Nc |-> 2]))

(***************************************************************************)
(* _compose_sampled_data.                                                  *)
(***************************************************************************)
RECURSIVE ComposeLoop(_, _, _, _, _)
\* the for loop over enumerate(sampled_indices), from position n (0-based)
\* on; a slice assignment whose two sides differ in shape raises and ends it
ComposeLoop(sigma_p, mels, secs, idx, st) ==
    IF st.err # "none" \/ st.n >= Len(idx) THEN st
    ELSE LET i == idx[st.n + 1]
             start_i == secs[i + 1]
             end_i == secs[i + 2]
             len_i == end_i - start_i
             sigma_p_i == Slice(sigma_p, start_i, end_i)
             mels_i == Slice(mels, start_i, end_i)
         IN IF \/ ~SliceFits(st.sigma_p, st.last_i, st.last_i + len_i, sigma_p_i)
               \/ ~SliceFits(st.mels, st.last_i, st.last_i + len_i, mels_i)
            THEN [st EXCEPT !.err = "ValueError"]
            ELSE ComposeLoop(sigma_p, mels, secs, idx,
                   [err |-> "none",
                    n |-> st.n + 1,
                    sigma_p |-> AssignSlice(st.sigma_p, st.last_i, st.last_i + len_i,
                                            sigma_p_i),
                    mels |-> AssignSlice(st.mels, st.last_i, st.last_i + len_i, mels_i),
                    secs |-> [st.secs EXCEPT ![st.n + 2] = st.last_i + len_i],
                    last_i |-> st.last_i + len_i,
                    maxlen |-> Max2(st.maxlen, len_i)])

\* padding_factor * int(np.ceil(last_i / padding_factor))
PaddedSize(last_i, MAX_LEN, min_padding_factor) ==
    LET padding_factor == Max2(MAX_LEN, min_padding_factor)
    IN padding_factor * ((last_i + padding_factor - 1) \div padding_factor)

_compose_sampled_data(sigma_p, mels, secs, MAX_LEN, sampled_indices, min_padding_factor) ==
    LET N_samples == Len(sampled_indices)
        N == IF Len(sigma_p) > 0 THEN Len(sigma_p[1]) ELSE 0
        st == ComposeLoop(sigma_p, mels, secs, sampled_indices,
                [err |-> "none",
                 n |-> 0,
                 sigma_p |-> Zeros(N_samples * MAX_LEN, Zeros(N, 0)),
                 mels |-> Zeros(N_samples * MAX_LEN, ZeroMel),
                 secs |-> Zeros(N_samples + 1, 0),
                 last_i |-> 0, maxlen |-> 0])
        padded_size == PaddedSize(st.last_i, MAX_LEN, min_padding_factor)
    IN IF st.err # "none" THEN [err |-> st.err]
       ELSE [err |-> "none",
             sigma_p |-> Slice(st.sigma_p, 0, padded_size),
             mels |-> Slice(st.mels, 0, padded_size),
             secs |-> st.secs,
             maxlen |-> st.maxlen]

(***************************************************************************)
(* sum_sections: jnp.repeat with total_repeat_length, then segment_sum.    *)
(***************************************************************************)
\* jnp.repeat(jnp.arange(N_rows), sizes, total_repeat_length=total): row i
\* starts at the sum of the sizes before it, and every position takes the
\* last row started at or before it, so positions past the last section
\* take the last row
RepeatIndices(N_rows, sizes, total) ==
    LET scatter == [i \in 1..N_rows |-> SumSeq(Slice(sizes, 0, i - 1))]
    IN [p \in 1..total |->
          Cardinality({i \in 1..N_rows : scatter[i] <= p - 1}) - 1]

\* jax.ops.segment_sum(arr, indices, num_segments=N_rows)
segment_sum(arr, indices, N_rows) ==
    [r \in 1..N_rows |->
       SumSeq([q \in 1..Len(arr) |-> IF indices[q] = r - 1 THEN arr[q] ELSE 0])]

sum_sections(arr, secs) ==
    LET N_rows == Len(secs) - 1
        sizes == [i \in 1..N_rows |-> secs[i + 1] - secs[i]]
        indices == RepeatIndices(N_rows, sizes, Len(arr))
    IN segment_sum(arr, indices, N_rows)

(***************************************************************************)
(* Inputs of the data pipeline.                                            *)
(***************************************************************************)
SamplePool == {<<1, -1>>, <<-1, -1>>}
SampleSites == Len(CHOOSE s \in SamplePool : TRUE)
KnownLabels == {"I", "X", "Y", "Z"}
\* two-site descriptors, one with a label outside KnownLabels, and one
\* descriptor of the wrong length
BasisPool == {<<"I", "Z">>, <<"X", "Z">>, <<"Y", "X">>, <<"Q", "I">>, <<"X">>}

SigmaInputs ==
    {[N |-> SampleSites, rows |-> r] : r \in SeqsUpTo(SamplePool, MaxRecords) \ {<<>>}}

StrLists ==
    {it \in SeqsUpTo(BasisPool, MaxRecords) : it # <<>> => Len(it[1]) = SampleSites}

UsInputs ==
    {[container |-> "list", elem |-> "str", items |-> it] : it \in StrLists}
    \cup {[container |-> "tuple", elem |-> "str", items |-> <<<<"X", "Z">>>>],
          [container |-> "list", elem |-> "ndarray", items |-> <<<<"0", "1">>>>],
          [container |-> "ndarray", elem |-> "str", items |-> <<<<"Y", "X">>>>],
          [container |-> "list", elem |-> "op", items |-> <<<<"X", "I">>, <<"I", "I">>>>]}

TrainingInputs == [sigma_s : SigmaInputs, Us : UsInputs]

\* a training set with as many samples as bases
Matched(td) == Len(td.sigma_s.rows) = Len(td.Us.items)

NoCall == [done |-> FALSE]

Drivers == {1, 2}
NoDrivers == [d \in Drivers |-> None]

DriversIdle ==
    /\ drv = NoDrivers
    /\ last_call = [d \in Drivers |-> "none"]
    /\ ret = NoDrivers
    /\ ctor = NoDrivers
    /\ hist = NoDrivers

(***************************************************************************)
(* The conversion of a training set: _check_bases_type and _convert_data   *)
(* applied to every input of TrainingInputs.                               *)
(***************************************************************************)
InitConvert ==
    /\ training_data \in TrainingInputs
    /\ bases_ret = None
    /\ conv_ret = None
    /\ compose_call = NoCall
    /\ sum_call = NoCall
    /\ DriversIdle

CheckBasesType ==
    /\ bases_ret = None
    /\ bases_ret' = _check_bases_type(training_data.Us)
    /\ UNCHANGED <<training_data, conv_ret, compose_call, sum_call, driverVars>>

ConvertData ==
    /\ conv_ret = None
    /\ conv_ret' = _convert_data(training_data.sigma_s, training_data.Us)
    /\ UNCHANGED <<training_data, bases_ret, compose_call, sum_call, driverVars>>

NextConvert == CheckBasesType \/ ConvertData

SpecConvert == InitConvert /\ [][NextConvert]_vars

(***************************************************************************)
(* The composition of a batch from any dataset _convert_data returns.      *)
(***************************************************************************)
InitCompose ==
    /\ training_data \in {td \in TrainingInputs :
                            _convert_data(td.sigma_s, td.Us).err = "none"}
    /\ bases_ret = _check_bases_type(training_data.Us)
    /\ conv_ret = _convert_data(training_data.sigma_s, training_data.Us)
    /\ compose_call = NoCall
    /\ sum_call = NoCall
    /\ DriversIdle

PaddingFactors == (1..MaxGran) \cup {DefaultPaddingFactor}

ComposeSampledData ==
    /\ ~compose_call.done
    /\ \E idx \in SeqsUpTo(0..(Len(conv_ret.secs) - 2), MaxBatch),
          g \in PaddingFactors :
          compose_call' =
              [done |-> TRUE,
               sampled_indices |-> idx,
               min_padding_factor |-> g,
               ret |-> _compose_sampled_data(conv_ret.sigma_p, conv_ret.mels,
                           conv_ret.secs, conv_ret.MAX_LEN, idx, g)]
    /\ UNCHANGED <<training_data, bases_ret, conv_ret, sum_call, driverVars>>

NextCompose == ComposeSampledData

SpecCompose == InitCompose /\ [][NextCompose]_vars

(***************************************************************************)
(* sum_sections on flat arrays and offsets.                                *)
(***************************************************************************)
ArrValues == {0, 1, 2}

\* non-decreasing offsets from 0 that end within an array of length n
Offsets(n) ==
    {secs \in SeqsUpTo(0..n, MaxArr + 1) :
        /\ Len(secs) >= 2
        /\ secs[1] = 0
        /\ \A i \in 1..(Len(secs) - 1) : secs[i] <= secs[i + 1]}

InitSum ==
    /\ \E arr \in SeqsUpTo(ArrValues, MaxArr) :
         \E secs \in Offsets(Len(arr)) :
            sum_call = [done |-> FALSE, arr |-> arr, secs |-> secs]
    /\ training_data = None
    /\ bases_ret = None
    /\ conv_ret = None
    /\ compose_call = NoCall
    /\ DriversIdle

SumSections ==
    /\ ~sum_call.done
    /\ sum_call' = [done |-> TRUE, arr |-> sum_call.arr, secs |-> sum_call.secs,
                    ret |-> sum_sections(sum_call.arr, sum_call.secs)]
    /\ UNCHANGED <<training_data, bases_ret, conv_ret, compose_call, driverVars>>

NextSum == SumSections

SpecSum == InitSum /\ [][NextSum]_vars

(***************************************************************************)
(* The QSR driver.                                                         *)
(***************************************************************************)
\* np.random.default_rng(mpi_split(PRNGKey(seed))): a generator whose stream
\* is fixed by the seed and the worker's rank, kept as its integer state
RngInit(seed, rank) == (11 * seed + 5 * rank + 1) % 32

RngNext(s) == (5 * s + 3) % 32

RECURSIVE RngIntegers(_, _, _)
\* rng.integers(high, size=size): the generator after the draw, and the values
RngIntegers(s, high, size) ==
    IF size = 0 THEN [rng |-> s, values |-> <<>>]
    ELSE LET s1 == RngNext(s)
             rest == RngIntegers(s1, high, size - 1)
         IN [rng |-> rest.rng, values |-> <<(s1 \div 4) % high>> \o rest.values]

RECURSIVE Insert(_, _)
Insert(x, s) ==
    IF s = <<>> THEN <<x>>
    ELSE IF x <= s[1] THEN <<x>> \o s
    ELSE <<s[1]>> \o Insert(x, Tail(s))

RECURSIVE Sort(_)
\* np.sort
Sort(s) == IF s = <<>> THEN <<>> ELSE Insert(s[1], Sort(Tail(s)))

\* the parameter tree's leaves, each with its dtype
Leaves == {"kernel", "bias"}
DtypePool == {[kernel |-> "float", bias |-> "complex"],
              [kernel |-> "complex", bias |-> "complex"]}

\* gradient trees the two phases (and a preconditioner) can produce
GradPool == {[kernel |-> <<1, 1>>, bias |-> <<2, -1>>],
             [kernel |-> <<0, 0>>, bias |-> <<0, 1>>]}
NoTree == [l \in Leaves |-> <<0, 0>>]

Preconditioners == {"identity", "sr"}
Seeds == {0, 1}
Ranks == {0, 1}

\* compose_grads without the conjugation
compose_grads_no_conj(grad_neg, grad_pos) ==
    [l \in DOMAIN grad_neg |->
        <<2 * (grad_neg[l][1] - grad_pos[l][1]), 2 * (grad_neg[l][2] - grad_pos[l][2])>>]

\* 2.0 * jnp.conj(x - y) on every leaf
compose_grads(grad_neg, grad_pos) ==
    [l \in DOMAIN grad_neg |->
        <<2 * (grad_neg[l][1] - grad_pos[l][1]), -2 * (grad_neg[l][2] - grad_pos[l][2])>>]

\* self.preconditioner(self.state, self._loss_grad): the identity returns the
\* gradient; any other preconditioner returns a tree of its own, `out`
Preconditioner(self, loss_grad, out) ==
    IF self.preconditioner = "identity" THEN loss_grad ELSE out

\* the projection with the test on the parameter's dtype inverted
RealProjection_inverted(dp, parameters) ==
    [l \in DOMAIN dp |-> IF parameters[l] = "complex" THEN <<dp[l][1], 0>> ELSE dp[l]]

\* tree_map(lambda x, target: x if iscomplexobj(target) else x.real, ...)
RealProjection(dp, parameters) ==
    [l \in DOMAIN dp |-> IF parameters[l] = "complex" THEN dp[l] ELSE <<dp[l][1], 0>>]

\* QSR.__init__ with a training set that converts: the attributes that
\* _forward_and_backward creates later hold empty values until then
QSR_init(conv, training_batch_size, preconditioner, parameters, seed, rank) ==
    [preconditioner |-> preconditioner,
     parameters |-> parameters,
     _rng |-> RngInit(seed, rank),
     _training_sigma_p |-> conv.sigma_p,
     _training_mels |-> conv.mels,
     _training_secs |-> conv.secs,
     _training_max_len |-> conv.MAX_LEN,
     _training_samples_n |-> Len(conv.secs) - 1,
     training_batch_size |-> training_batch_size,
     _grad_neg |-> NoTree, _grad_pos |-> NoTree,
     _loss_grad |-> NoTree, _dp |-> NoTree,
     _sampled_indices |-> <<>>,
     _sigma_p |-> <<>>, _mels |-> <<>>, _secs |-> <<>>, _maxlen |-> 0]

\* the draw of line 322-326: the generator after it and the sorted indices
SampleIndices(self) ==
    LET draw == RngIntegers(self._rng, self._training_samples_n, self.training_batch_size)
    IN [rng |-> draw.rng, indices |-> Sort(draw.values)]

\* the attributes a step holds once the batch is composed and the gradients
\* are combined
StepDone(self, grad_neg, grad_pos, precond_out, s, batch) ==
    LET loss_grad == compose_grads(grad_neg, grad_pos)
        dp == RealProjection(Preconditioner(self, loss_grad, precond_out),
                             self.parameters)
    IN [self |-> [self EXCEPT
                    !._grad_neg = grad_neg, !._rng = s.rng,
                    !._sampled_indices = s.indices,
                    !._sigma_p = batch.sigma_p, !._mels = batch.mels,
                    !._secs = batch.secs, !._maxlen = batch.maxlen,
                    !._grad_pos = grad_pos, !._loss_grad = loss_grad,
                    !._dp = dp],
        ret |-> [err |-> "none", dp |-> dp]]

\* the attributes a step holds when _compose_sampled_data raises: those set
\* before the call
StepRaised(self, grad_neg, s, batch) ==
    [self |-> [self EXCEPT !._grad_neg = grad_neg, !._rng = s.rng,
                           !._sampled_indices = s.indices],
     ret |-> [err |-> batch.err]]

\* a step whose sampler draws from the driver's generator whenever the
\* negative-phase gradient of the kernel is non-zero
_forward_and_backward_shared_rng(self, grad_neg, grad_pos, precond_out) ==
    LET used == IF grad_neg["kernel"] # <<0, 0>> THEN RngNext(self._rng) ELSE self._rng
        s == SampleIndices([self EXCEPT !._rng = used])
        batch == _compose_sampled_data(self._training_sigma_p, self._training_mels,
                     self._training_secs, self._training_max_len,
                     s.indices, DefaultPaddingFactor)
    IN IF batch.err # "none" THEN StepRaised(self, grad_neg, s, batch)
       ELSE StepDone(self, grad_neg, grad_pos, precond_out, s, batch)

\* QSR._forward_and_backward: grad_neg, grad_pos and precond_out are what
\* _avg_O, grad_local_value_rotated and a non-identity preconditioner return.
\* The driver after the call, and the update returned or the error raised.
_forward_and_backward(self, grad_neg, grad_pos, precond_out) ==
    LET s == SampleIndices(self)
        batch == _compose_sampled_data(self._training_sigma_p, self._training_mels,
                     self._training_secs, self._training_max_len,
                     s.indices, DefaultPaddingFactor)
    IN IF batch.err # "none" THEN StepRaised(self, grad_neg, s, batch)
       ELSE StepDone(self, grad_neg, grad_pos, precond_out, s, batch)

\* nll drawing and composing a batch of its own
nll_fresh_batch(self) ==
    LET s == SampleIndices(self)
        batch == _compose_sampled_data(self._training_sigma_p, self._training_mels,
                     self._training_secs, self._training_max_len,
                     s.indices, DefaultPaddingFactor)
    IN IF batch.err # "none"
       THEN [self |-> [self EXCEPT !._rng = s.rng, !._sampled_indices = s.indices],
             ret |-> [err |-> batch.err]]
       ELSE [self |-> [self EXCEPT !._rng = s.rng, !._sampled_indices = s.indices,
                                   !._sigma_p = batch.sigma_p, !._mels = batch.mels,
                                   !._secs = batch.secs, !._maxlen = batch.maxlen],
             ret |-> [err |-> "none", sigma_p |-> batch.sigma_p, mels |-> batch.mels,
                      secs |-> batch.secs]]

\* QSR.nll: the driver after the call, and the arrays the positive-phase
\* term was evaluated on; until a step has composed a batch the attributes
\* _sigma_p, _mels and _secs do not exist (a composed _secs is never empty)
nll(self) ==
    [self |-> self,
     ret |-> IF self._secs = <<>> THEN [err |-> "AttributeError"]
             ELSE [err |-> "none", sigma_p |-> self._sigma_p, mels |-> self._mels,
                   secs |-> self._secs]]

\* training sets the drivers are constructed with: two with as many samples
\* as bases, and one with a sample more than bases
DriverTrainingPool ==
    {[sigma_s |-> [N |-> SampleSites, rows |-> <<<<1, -1>>, <<-1, -1>>>>],
      Us |-> [container |-> "list", elem |-> "str",
              items |-> <<<<"X", "Z">>, <<"I", "Z">>>>]],
     [sigma_s |-> [N |-> SampleSites, rows |-> <<<<-1, -1>>, <<1, -1>>>>],
      Us |-> [container |-> "list", elem |-> "str",
              items |-> <<<<"Z", "Z">>, <<"Y", "X">>>>]],
     [sigma_s |-> [N |-> SampleSites,
                   rows |-> <<<<1, -1>>, <<-1, -1>>, <<1, -1>>>>],
      Us |-> [container |-> "list", elem |-> "str",
              items |-> <<<<"X", "Z">>, <<"I", "Z">>>>]]}

Built(d) == drv[d] # None
\* a step of driver d has returned
Stepped(d) == Built(d) /\ drv[d]._secs # <<>>

\* The drivers of D constructed for one experiment (the same training set,
\* batch size, preconditioner and parameter dtypes), each with a seed and a
\* rank of its own; the other drivers are never constructed. `dtypes` are the
\* parameter trees the experiment may use.
DriversBuilt(D, keys, dtypes) ==
    /\ bases_ret = _check_bases_type(training_data.Us)
    /\ conv_ret = _convert_data(training_data.sigma_s, training_data.Us)
    /\ compose_call = NoCall
    /\ sum_call = NoCall
    /\ \E B \in 1..MaxBatch, p \in Preconditioners, dt \in dtypes :
         /\ ctor = [d \in Drivers |->
                      IF d \in D
                      THEN [seed |-> keys[d].seed, rank |-> keys[d].rank,
                            training_batch_size |-> B, preconditioner |-> p,
                            parameters |-> dt]
                      ELSE None]
         /\ drv = [d \in Drivers |->
                     IF d \in D
                     THEN QSR_init(conv_ret, B, p, dt, keys[d].seed, keys[d].rank)
                     ELSE None]
    /\ last_call = [d \in Drivers |-> IF d \in D THEN "__init__" ELSE "none"]
    /\ ret = NoDrivers
    /\ hist = [d \in Drivers |->
                 IF d \in D
                 THEN [drawn |-> <<>>, precond_out |-> NoTree,
                       composed |-> [sigma_p |-> <<>>, mels |-> <<>>, secs |-> <<>>]]
                 ELSE None]

\* one driver, constructed from any training set of the pool
Init ==
    /\ training_data \in DriverTrainingPool
    /\ \E keys \in [Drivers -> [seed : Seeds, rank : Ranks]] :
         /\ keys[2] = keys[1]
         /\ DriversBuilt({1}, keys, DtypePool)

\* one training step of driver d
Step(d) ==
    /\ Built(d)
    /\ Len(hist[d].drawn) < MaxSteps
    /\ \E grad_neg \in GradPool, grad_pos \in GradPool, precond_out \in GradPool :
         LET r == _forward_and_backward(drv[d], grad_neg, grad_pos, precond_out)
             new == r.self
         IN /\ drv' = [drv EXCEPT ![d] = new]
            /\ ret' = [ret EXCEPT ![d] = r.ret]
            /\ hist' = [hist EXCEPT ![d] =
                 IF r.ret.err # "none"
                 THEN [hist[d] EXCEPT !.drawn = Append(@, new._sampled_indices)]
                 ELSE [drawn |-> Append(hist[d].drawn, new._sampled_indices),
                       precond_out |-> Preconditioner(drv[d], new._loss_grad,
                                                      precond_out),
                       composed |-> [sigma_p |-> new._sigma_p, mels |-> new._mels,
                                     secs |-> new._secs]]]
    /\ last_call' = [last_call EXCEPT ![d] = "step"]
    /\ UNCHANGED <<dataVars, ctor>>

\* one nll() call on driver d
Nll(d) ==
    /\ Built(d)
    /\ LET r == nll(drv[d])
       IN /\ drv' = [drv EXCEPT ![d] = r.self]
          /\ ret' = [ret EXCEPT ![d] = r.ret]
    /\ last_call' = [last_call EXCEPT ![d] = "nll"]
    /\ UNCHANGED <<dataVars, ctor, hist>>

Next == Step(1) \/ Nll(1)

Spec == Init /\ [][Next]_vars

(***************************************************************************)
(* Two independent runs, for what one run's draws owe to its seed: the     *)
(* first driver is the reference run, the second takes any seed and rank.  *)
(***************************************************************************)
ReferenceKey == [seed |-> CHOOSE x \in Seeds : \A y \in Seeds : x <= y,
                 rank |-> CHOOSE x \in Ranks : \A y \in Ranks : x <= y]

InitRepro ==
    /\ training_data = CHOOSE td \in DriverTrainingPool :
                            Matched(td) /\ td.Us.items[1] = <<"X", "Z">>
    /\ \E keys \in [Drivers -> [seed : Seeds, rank : Ranks]] :
         /\ keys[1] = ReferenceKey
         /\ DriversBuilt(Drivers, keys, {dt \in DtypePool : dt.kernel = "float"})

NextRepro == \E d \in Drivers : Step(d) \/ Nll(d)

SpecRepro == InitRepro /\ [][NextRepro]_vars

(***************************************************************************)
(* Properties of the data pipeline.                                        *)
(***************************************************************************)
Rows == training_data.sigma_s.rows
BuiltBases == _check_bases_type(training_data.Us).bases

\* how many connected configurations record i, a sample with its basis, has
ConnCount(i) == Len(get_conn(BuiltBases[i], Rows[i]).mels)

RECURSIVE MaxSeq(_)
MaxSeq(s) == IF s = <<>> THEN 0 ELSE Max2(s[1], MaxSeq(Tail(s)))

IsZeroCfg(c) == \A j \in 1..Len(c) : c[j] = 0

\* _convert_data has returned a dataset
Converted == conv_ret # None /\ conv_ret.err = "none"

\* C2: a dataset converted from N samples has N+1 non-decreasing offsets
\* from 0, the last one the sum of the records' connected-configuration
\* counts; the flat arrays hold exactly MAX_LEN (the largest count) more
\* entries, all zero, so a window of MAX_LEN entries from any offset stays in
\* bounds.
C2_SegmentInvariant ==
    Converted =>
        LET N == Len(Rows)
            counts == [i \in 1..Min2(N, Len(BuiltBases)) |-> ConnCount(i)]
            secs == conv_ret.secs
            total == secs[N + 1]
        IN /\ Len(secs) = N + 1
           /\ secs[1] = 0
           /\ \A i \in 1..N : secs[i] <= secs[i + 1]
           /\ total = SumSeq(counts)
           /\ conv_ret.MAX_LEN = MaxSeq(counts)
           /\ Len(conv_ret.sigma_p) = total + conv_ret.MAX_LEN
           /\ Len(conv_ret.mels) = total + conv_ret.MAX_LEN
           /\ \A p \in (total + 1)..Len(conv_ret.mels) :
                 conv_ret.mels[p] = ZeroMel /\ IsZeroCfg(conv_ret.sigma_p[p])
           /\ \A i \in 1..(N + 1) : secs[i] + conv_ret.MAX_LEN <= Len(conv_ret.mels)

HasUnknownLabel(Us) ==
    /\ Us.container \in {"list", "ndarray"}
    /\ Us.elem = "str"
    /\ \E i \in 1..Len(Us.items) : \E j \in 1..Len(Us.items[i]) :
          Us.items[i][j] \notin KnownLabels

\* C7: building the rotations of a descriptor that holds a label outside
\* I, X, Y, Z fails and yields no operator.
C7_UnknownLabelRejected ==
    (bases_ret # None /\ HasUnknownLabel(training_data.Us)) => bases_ret.err # "none"

\* C8: conversion fails, and returns no dataset, whenever the number of
\* samples differs from the number of bases.
C8_MismatchRejected ==
    (conv_ret # None /\ ~Matched(training_data)) => conv_ret.err # "none"

\* _compose_sampled_data has returned a batch
Composed == compose_call.done /\ compose_call.ret.err = "none"

\* C1: the flat arrays of a returned batch have a length that is a multiple
\* of the padding granularity, at least the total copied length, and the
\* smallest such multiple.
C1_PaddedLength ==
    Composed =>
        LET g == compose_call.min_padding_factor
            r == compose_call.ret
            total == r.secs[Len(r.secs)]
        IN /\ Len(r.sigma_p) = Len(r.mels)
           /\ Len(r.mels) % g = 0
           /\ Len(r.mels) >= total
           /\ Len(r.mels) - total < g

\* C3: in a returned batch, position n holds exactly the entries of dataset
\* record s[n], in order, at [secs'[n], secs'[n+1]); secs' has B+1 entries
\* from 0; the recorded maximum is the largest copied segment length.
C3_BatchContainment ==
    Composed =>
        LET s == compose_call.sampled_indices
            r == compose_call.ret
            B == Len(s)
            secs == conv_ret.secs
            lens == [n \in 1..B |-> secs[s[n] + 2] - secs[s[n] + 1]]
        IN /\ Len(r.secs) = B + 1
           /\ r.secs[1] = 0
           /\ \A n \in 1..B :
                /\ r.secs[n + 1] - r.secs[n] = lens[n]
                /\ r.secs[n + 1] <= Len(r.mels)
                /\ \A k \in 1..lens[n] :
                     /\ r.mels[r.secs[n] + k] = conv_ret.mels[secs[s[n] + 1] + k]
                     /\ r.sigma_p[r.secs[n] + k] = conv_ret.sigma_p[secs[s[n] + 1] + k]
           /\ r.maxlen = MaxSeq(lens)

\* C10: sum_sections returns one value per section, the sum of
\* arr[secs[i]:secs[i+1]], whatever arr holds past the last offset.
C10_SumSections ==
    sum_call.done =>
        LET N_rows == Len(sum_call.secs) - 1
        IN /\ Len(sum_call.ret) = N_rows
           /\ \A i \in 1..N_rows :
                sum_call.ret[i] =
                    SumSeq(Slice(sum_call.arr, sum_call.secs[i], sum_call.secs[i + 1]))

(***************************************************************************)
(* Properties of the driver.                                               *)
(***************************************************************************)
\* C4 as stated: with the identity preconditioner the update returned by a
\* step equals the loss gradient on every leaf.
C4_UpdateEqualsLossGrad ==
    \A d \in Drivers :
        (/\ Built(d) /\ last_call[d] = "step" /\ ret[d].err = "none"
         /\ drv[d].preconditioner = "identity") =>
            \A l \in Leaves : ret[d].dp[l] = drv[d]._loss_grad[l]

\* C4 amended: with the identity preconditioner the update equals the loss
\* gradient 2*conj(grad_neg - grad_pos) on every complex leaf, and its real
\* part on every real leaf.
C4_UpdateIsProjectedLossGrad ==
    \A d \in Drivers :
        (/\ Built(d) /\ last_call[d] = "step" /\ ret[d].err = "none"
         /\ drv[d].preconditioner = "identity") =>
            \A l \in Leaves :
                LET x == drv[d]._grad_neg[l]
                    y == drv[d]._grad_pos[l]
                    g == <<2 * (x[1] - y[1]), 0 - 2 * (x[2] - y[2])>>
                IN /\ drv[d]._loss_grad[l] = g
                   /\ ret[d].dp[l] = IF drv[d].parameters[l] = "complex" THEN g
                                     ELSE <<g[1], 0>>

\* a step with the identity preconditioner whose loss gradient has an
\* imaginary part on a real leaf and on a complex leaf
C4_Witness ==
    \E d \in Drivers :
        /\ Built(d) /\ last_call[d] = "step" /\ ret[d].err = "none"
        /\ drv[d].preconditioner = "identity"
        /\ \E l \in Leaves : drv[d].parameters[l] = "float" /\ drv[d]._loss_grad[l][2] # 0
        /\ \E l \in Leaves : drv[d].parameters[l] = "complex" /\ drv[d]._loss_grad[l][2] # 0

\* C5: after a step, the update of a real leaf is the real part of the
\* preconditioner's output (no imaginary part), and the update of a complex
\* leaf is that output unchanged.
C5_RealProjection ==
    \A d \in Drivers :
        Stepped(d) =>
            \A l \in Leaves :
                IF drv[d].parameters[l] = "complex"
                THEN drv[d]._dp[l] = hist[d].precond_out[l]
                ELSE /\ drv[d]._dp[l][2] = 0
                     /\ drv[d]._dp[l][1] = hist[d].precond_out[l][1]

\* a step whose preconditioner is not the identity and returned an imaginary
\* part on a real leaf
C5_Witness ==
    \E d \in Drivers :
        /\ Stepped(d)
        /\ drv[d].preconditioner # "identity"
        /\ \E l \in Leaves :
              drv[d].parameters[l] = "float" /\ hist[d].precond_out[l][2] # 0
        /\ hist[d].precond_out # drv[d]._loss_grad

SameRun(d, e) ==
    /\ Built(d) /\ Built(e)
    /\ ctor[d].seed = ctor[e].seed
    /\ ctor[d].rank = ctor[e].rank
    /\ ctor[d].training_batch_size = ctor[e].training_batch_size
    /\ drv[d]._training_samples_n = drv[e]._training_samples_n

\* C6: two drivers with the same seed, rank, dataset size and batch size
\* draw the same sorted index list at every step both have taken, whatever
\* gradients either saw and whether or not nll() was called in between.
C6_Reproducible ==
    \A d, e \in Drivers :
        SameRun(d, e) =>
            \A k \in 1..Min2(Len(hist[d].drawn), Len(hist[e].drawn)) :
                hist[d].drawn[k] = hist[e].drawn[k]

\* two runs of the same seed that saw different gradients and took two steps
\* with different draws
C6_Witness ==
    /\ SameRun(1, 2)
    /\ Len(hist[1].drawn) >= 2 /\ Len(hist[2].drawn) >= 2
    /\ hist[1].drawn[1] # hist[1].drawn[2]
    /\ drv[1]._grad_neg # drv[2]._grad_neg
    /\ last_call[1] = "nll" /\ last_call[2] = "step"

\* C9: an nll() call evaluates on the batch composed by the latest step(),
\* and leaves the generator, the cached batch, the sampled indices and the
\* gradients as they were.
C9_NllReusesLastBatch ==
    [][\A d \in Drivers :
          (Built(d) /\ last_call'[d] = "nll") =>
              /\ drv'[d] = drv[d]
              /\ hist'[d] = hist[d]
              /\ Stepped(d) =>
                    /\ ret'[d].err = "none"
                    /\ ret'[d].sigma_p = hist[d].composed.sigma_p
                    /\ ret'[d].mels = hist[d].composed.mels
                    /\ ret'[d].secs = hist[d].composed.secs]_vars

\* nll() called after the second step, on a batch that differs from the
\* first step's
C9_Witness ==
    \E d \in Drivers :
        /\ Stepped(d)
        /\ last_call[d] = "nll"
        /\ Len(hist[d].drawn) >= 2
        /\ hist[d].drawn[1] # hist[d].drawn[2]
        /\ ret[d].secs = drv[d]._secs

====
